---- MODULE Spec2Model ----
(***************************************************************************)
(* Model of the parc crate (src/parc/src/lib.rs): ParentArc (the Owner),   *)
(* LockWeak (the WeakHandle), ChildArc (the ReaderHandle) and the shared   *)
(* Womb { data, lock, strong }.                                            *)
(*                                                                         *)
(* One owner thread (ParentArc holds a NonNull and is neither Send nor     *)
(* Sync) runs the ParentArc operations one after the other; NumReaders     *)
(* reader threads each own a LockWeak once the owner has downgraded for    *)
(* them and run upgrade / use / drop.  Every atomic load,                  *)
(* compare_and_swap and compare_exchange_weak of the source is one step;   *)
(* steps of different threads interleave (sequentially consistent          *)
(* atomics).  A spurious failure of compare_exchange_weak returns the      *)
(* current value, so it leaves the thread's state as it was when the       *)
(* local n is current: it is a stuttering step of this model.              *)
(*                                                                         *)
(* The Womb is allocated by Box::into_raw and never handed back to a Box   *)
(* (block_into_inner and try_unwrap forget the ParentArc, Drop only        *)
(* waits), so lock and strong stay readable for ever; the payload is moved *)
(* out by ptr::read, and a use of it through a ChildArc after that is a    *)
(* use after move: a read yields the stale bits or Garbage, which stands   *)
(* for any other value, or the access does not return and the thread is    *)
(* lost.                                                                   *)
(***************************************************************************)
EXTENDS Integers, FiniteSets, TLC

\* ---------------------------------------------------------------- bounds
NumReaders == 2
MaxPayload == 1
MaxMut == 1
MaxIters == 3
MaxCtx == 2

Readers == 1..NumReaders
Payloads == 0..MaxPayload
Garbage == 0 - 1

\* The LockArcs of a contract: OptionContract has two (void_context and
\* prod_context), FuturesContract one (context), the first.
NumArcs == 2
Arcs == 1..NumArcs
OneArc == {a \in Arcs : a = 1}

\* A context is a pair (.0, .1) of small numbers, as the contexts of
\* context::cmp are; CtxVals are the values of a field.
CtxVals == 0..MaxCtx
Contexts == CtxVals \X CtxVals
Nothing == 0 - 2

VARIABLES
    lock,        \* Womb.lock   : AtomicBool
    strong,      \* Womb.strong : AtomicUsize
    data,        \* Womb.data   : the payload as stored in the cell
    consumedBy,  \* "none", or the operation that ended the ParentArc
    got,         \* the payload handed to the caller by a reclamation
    opc,         \* the owner's position ("idle": between two operations)
    ores,        \* the result of the last ParentArc operation that returned
    weak,        \* weak[r]: reader r owns a LockWeak
    pc,          \* pc[r]: reader r's position
    n,           \* n[r]: the local n of upgrade / ChildArc::drop
    res,         \* res[r]: result of r's last upgrade ("none" while running)
    \* ---- history variables (not program state)
    payload0,    \* the value passed to ParentArc::new
    muts,        \* number of writes made through ChildArcs
    iters,       \* repeats of the running lock()/unlock() loop, loads made
                 \* by the running try_unwrap; capped
    madeLocked,  \* madeLocked[r]: lock was true when r's increment succeeded
    before,      \* ChildArcs live at the call of block_into_inner (or at the
                 \* start of Drop) and not released since
    lockRet,     \* a lock() has returned and no unlock() has taken effect
    afterLock,   \* afterLock[r]: r's upgrade started while lockRet and no
                 \* unlock() has taken effect since
    unlockRet,   \* unlock() has returned and the owner called nothing since
    afterUnlock, \* afterUnlock[r]: r's upgrade started while unlockRet,
                 \* its previous upgrade having failed
    afterMove,   \* afterMove[r]: r's upgrade started after the payload
                 \* was moved out
    hadBefore,   \* some ChildArc was live at that call
    tuLock,      \* lock at the call of the running / last try_unwrap
    tuLive,      \* ChildArcs live from the call of try_unwrap until now
    tuZero,      \* "yes": strong was 0 at the call of the running / last
                 \* try_unwrap and no increment has completed since;
                 \* "raced": it was 0 and one has; "no" otherwise
    lockedWeak   \* lockedWeak[r]: r's LockWeak was made by downgrade with
                 \* the flag true, and no unlock() has taken effect since

\* The Arc-based variant, src/src/sync.rs: LockArc { inner: Arc<T>, lock:
\* Arc<AtomicBool> } and LockWeak { inner: Weak<T>, lock }.  There are
\* NumArcs of them (a contract of src/src/contracts owns one or two).
VARIABLES
    aLock,       \* aLock[a]   : the AtomicBool shared by LockArc a and its
                 \*              LockWeaks
    aStrong,     \* aStrong[a] : the strong count of the Arc<T> inner
    aCtx,        \* aCtx[a]    : the value inside the Arc
    aOwn,        \* aOwn[a]    : where the LockArc is ("held": it exists and no
                 \*              operation that consumes it has been called)
    aGot,        \* aGot[a]    : the value returned by consumme()
    aWeak,       \* aWeak[a]   : the readers that own a LockWeak of a
    wpc,         \* wpc[r]     : reader r's position in LockWeak::upgrade
    wat,         \* wat[r]     : the LockArc of r's running / last upgrade
    wn,          \* wn[r]      : the local n of Weak::upgrade
    wres,        \* wres[r]    : result of r's last upgrade
    \* ---- history variables (not program state)
    aNone,       \* aNone[a]   : some upgrade on a LockWeak of a returned None
    wLocked,     \* wLocked[r] : the flag was set when r's upgrade was called
    wAfterNone   \* wAfterNone[r] : r's upgrade was called when aNone[wat[r]]

\* Threads of the tests of the parc crate and of its user, the
\* OnKillContract of src/rustracts.
VARIABLES
    panicked     \* the reader threads that panicked (panic!() while holding a
                 \* ChildArc, tests::one_panic_read_threads)

\* A contract (src/src/contracts, src/rustracts/src/contracts): the thread
\* that polls it, its timer and its closure.
VARIABLES
    cpc,         \* where the polling thread is inside Future::poll
    expired,     \* Timer::expired(): now - creation > duration
    sawTimer,    \* poll's mv.0: timer.poll(cx) was Poll::Ready
    sawValid,    \* poll's mv.1: self.poll_valid()
    sawProd,     \* OptionContract::poll's mv.2: self.poll_prod()
    onExe,       \* the closure field (on_exe, on_void) is Some
    cres,        \* what the last poll returned ("none" before any return)
    cval,        \* the value inside the Status::Completed that was returned
    calls,       \* history: how many times the closure has been called
    written      \* history: a reader has written the context

\* The timed wrapper Futures<Fut> (src/src/futures.rs), the inner future it
\* was given and the task that polls it.
VARIABLES
    tpc,         \* where the polling task is inside Futures::poll
    elapsed,     \* core: the Delay has elapsed (its poll returns Ready)
    fHeld,       \* f is Some: the wrapper holds the inner future
    store,       \* store: the inner Ok value, Nothing for None
    inner,       \* the inner future: "pending", "ready" (its next poll
                 \* returns Ready) or "returned" (a poll returned Ready)
    outcome,     \* what the inner future resolves to: << "ok", v >> or
                 \* << "err", e >>
    tres,        \* what the last Futures::poll returned, << kind, value >>
    repolled,    \* history: the inner future was polled after it had
                 \* returned Ready
    storedAtCall \* history: at the call of the running (or last) poll the
                 \* delay had elapsed and store was Some

parcVars == << lock, strong, data, consumedBy, got, opc, ores, weak, pc, n,
               res, payload0, muts, iters, madeLocked, before, lockRet,
               afterLock, unlockRet, afterUnlock, afterMove, hadBefore,
               tuLock, tuLive, tuZero, lockedWeak >>

arcVars == << aLock, aStrong, aCtx, aOwn, aGot, aWeak, wpc, wat, wn, wres,
              aNone, wLocked, wAfterNone >>

\* What the operations of the parc crate leave alone.
conRest == << cpc, expired, sawTimer, sawValid, sawProd, onExe, cres, cval,
             calls >>
conVars == << conRest, written >>
timedVars == << tpc, elapsed, fHeld, store, inner, outcome, tres, repolled,
               storedAtCall >>
otherVars == << arcVars, panicked, conVars, timedVars >>

vars == << parcVars, otherVars >>

cellVars == << lock, strong, data, consumedBy, got >>
ownerVars == << opc, ores, iters, before, hadBefore, lockRet, unlockRet,
               tuLock >>
readerVars == << weak, pc, n, res, madeLocked, afterLock, afterUnlock,
                afterMove, lockedWeak >>

\* A ChildArc of r exists: its increment has completed, its decrement not.
Live(r) == pc[r] \in {"hold", "lost", "rel_cas"}
LiveSet == {r \in Readers : Live(r)}

\* The payload has been moved out of the cell by ptr::read.
Moved == consumedBy \in {"block_into_inner", "try_unwrap"}

\* r's upgrade has read the flag false: it is incrementing, or has a ChildArc.
PastGate(r) == pc[r] \in {"up_load", "up_cas", "hold", "lost", "rel_cas"}

Min(a, b) == IF a < b THEN a ELSE b

\* ------------------------------------------------------------------ Init
\* Womb::as_nnptr: lock = false, strong = 0, data = the value given to new.
ParcInit ==
    /\ payload0 \in Payloads
    /\ data = payload0
    /\ lock = FALSE
    /\ strong = 0
    /\ consumedBy = "none"
    /\ got = Nothing
    /\ opc = "idle"
    /\ ores = "none"
    /\ weak = [r \in Readers |-> FALSE]
    /\ pc = [r \in Readers |-> "idle"]
    /\ n = [r \in Readers |-> 0]
    /\ res = [r \in Readers |-> "none"]
    /\ muts = 0
    /\ iters = 0
    /\ madeLocked = [r \in Readers |-> FALSE]
    /\ before = {}
    /\ lockRet = FALSE
    /\ afterLock = [r \in Readers |-> FALSE]
    /\ unlockRet = FALSE
    /\ afterUnlock = [r \in Readers |-> FALSE]
    /\ afterMove = [r \in Readers |-> FALSE]
    /\ hadBefore = FALSE
    /\ tuLock = FALSE
    /\ tuLive = {}
    /\ tuZero = "no"
    /\ lockedWeak = [r \in Readers |-> FALSE]

\* LockArc::new(val) for every LockArc, ctx[a] being the value given for a:
\* inner = Arc::new(val) (strong count 1), lock = AtomicBool::new(false).
ArcInit(ctx) ==
    /\ aLock = [a \in Arcs |-> FALSE]
    /\ aStrong = [a \in Arcs |-> 1]
    /\ aCtx = ctx
    /\ aOwn = [a \in Arcs |-> "held"]
    /\ aGot = [a \in Arcs |-> << >>]
    /\ aWeak = [a \in Arcs |-> {}]
    /\ wpc = [r \in Readers |-> "idle"]
    /\ wat = [r \in Readers |-> 1]
    /\ wn = [r \in Readers |-> 0]
    /\ wres = [r \in Readers |-> "none"]
    /\ aNone = [a \in Arcs |-> FALSE]
    /\ wLocked = [r \in Readers |-> FALSE]
    /\ wAfterNone = [r \in Readers |-> FALSE]

\* In the specifications of the parc crate the LockArcs are not used.
ZeroCtx == [a \in Arcs |-> << 0, 0 >>]

\* Nothing outside the parc crate has happened.
\* Futures::new(duration, f), f being a future that resolves to o:
\* core = delay_for(duration), f = Some(f), store = None.
TimedInit(o) ==
    /\ tpc = "idle"
    /\ elapsed = FALSE
    /\ fHeld = TRUE
    /\ store = Nothing
    /\ inner = "pending"
    /\ outcome = o
    /\ tres = << "none", Nothing >>
    /\ repolled = FALSE
    /\ storedAtCall = FALSE

\* No reader thread has panicked and no contract has been polled.
ConInit ==
    /\ panicked = {}
    /\ cpc = "idle"
    /\ expired = FALSE
    /\ sawTimer = FALSE
    /\ sawValid = FALSE
    /\ sawProd = FALSE
    /\ onExe = TRUE
    /\ cres = "none"
    /\ cval = Nothing
    /\ calls = 0
    /\ written = FALSE

\* Outside TimedSpec the wrapper is not used.
UserInit == ConInit /\ TimedInit(<< "ok", 0 >>)

Init == ParcInit /\ ArcInit(ZeroCtx) /\ UserInit

\* ------------------------------------------------------- atomic helpers
\* AtomicBool::compare_and_swap(expected, new) on a flag holding cur: the
\* value it leaves in the flag.  It returns the previous value, cur.
CasVal(cur, expected, new) == IF cur = expected THEN new ELSE cur

\* lock():   while lock.compare_and_swap(false, true, Release) {}
LockCasVal(cur) == CasVal(cur, FALSE, TRUE)
LockLoopAgain(prev) == prev

\* unlock(): while lock.compare_and_swap(true, false, Release) {}
UnlockCasValSwapped(cur) == CasVal(cur, FALSE, TRUE)
UnlockCasVal(cur) == CasVal(cur, TRUE, FALSE)
UnlockLoopAgain(prev) == prev

\* upgrade(): if this.lock.load(Relaxed) { return None; }
UpgradeRefusedNever(l) == FALSE
UpgradeRefused(l) == l

\* strong.compare_exchange_weak(n, n + 1 / n - 1): Ok iff strong holds n.
StrongCasOkAlways(cur, expected) == TRUE
StrongCasOk(cur, expected) == cur = expected

\* ----------------------------------------------------- reader threads
\* LockWeak::upgrade: self.inner()? compares the address with usize::MAX,
\* which no pointer made by Box::into_raw equals; the first shared access
\* is this.lock.load(Relaxed), and None is returned when it reads true.
UpgradeReadLock(r) ==
    /\ pc[r] = "idle"
    /\ weak[r]
    /\ IF UpgradeRefused(lock)
         THEN /\ res' = [res EXCEPT ![r] = "None"]
              /\ pc' = pc
         ELSE /\ res' = [res EXCEPT ![r] = "none"]
              /\ pc' = [pc EXCEPT ![r] = "up_load"]
    /\ afterLock' = [afterLock EXCEPT ![r] = lockRet]
    /\ afterUnlock' = [afterUnlock EXCEPT ![r] = unlockRet /\ res[r] = "None"]
    /\ afterMove' = [afterMove EXCEPT ![r] = Moved]
    /\ UNCHANGED << cellVars, ownerVars, weak, n, madeLocked, lockedWeak,
                    payload0, otherVars, muts, tuLive, tuZero >>

\* let mut n = this.strong.load(Relaxed);
UpgradeLoad(r) ==
    /\ pc[r] = "up_load"
    /\ n' = [n EXCEPT ![r] = strong]
    /\ pc' = [pc EXCEPT ![r] = "up_cas"]
    /\ UNCHANGED << cellVars, ownerVars, weak, res, madeLocked, afterLock,
                    afterUnlock, afterMove, lockedWeak, payload0, otherVars,
                    muts, tuLive, tuZero >>

\* One iteration of the loop around compare_exchange_weak(n, n + 1):
\* Ok => break and return Some(ChildArc); Err(old) => n = old.
UpgradeCas(r) ==
    /\ pc[r] = "up_cas"
    /\ IF StrongCasOk(strong, n[r])
         THEN /\ strong' = n[r] + 1
              /\ pc' = [pc EXCEPT ![r] = "hold"]
              /\ res' = [res EXCEPT ![r] = "Some"]
              /\ madeLocked' = [madeLocked EXCEPT ![r] = lock]
              /\ tuZero' = IF tuZero = "yes" THEN "raced" ELSE tuZero
              /\ n' = [n EXCEPT ![r] = 0]
         ELSE /\ n' = [n EXCEPT ![r] = strong]
              /\ UNCHANGED << strong, pc, res, madeLocked, tuZero >>
    /\ UNCHANGED << lock, data, consumedBy, got, ownerVars, weak, afterLock,
                    afterUnlock, afterMove, lockedWeak, payload0, otherVars,
                    muts, tuLive >>

\* What a read of the payload through a ChildArc (Deref) can yield now.
\* After the payload was moved out the read is a use after move: the stale
\* bits, or Garbage.
ReadVals == IF Moved THEN {data, Garbage} ELSE {data}

\* A write through the ChildArc (the payload carries its own interior
\* mutability: *mutex.lock().unwrap() += 1 in the tests).
Mutate(r) ==
    /\ pc[r] = "hold"
    /\ muts < MaxMut
    /\ data' = data + 1
    /\ muts' = muts + 1
    /\ UNCHANGED << lock, strong, consumedBy, got, ownerVars, readerVars,
                    payload0, otherVars, tuLive, tuZero >>

\* A use of the payload through the ChildArc after it was moved out, and
\* dropped by the owner's caller (let _: sync::Mutex<usize> =
\* m.block_into_inner() in the tests): besides yielding the stale bits or
\* Garbage, the access can fail to return (mutex.lock() on a destroyed
\* Mutex, a fault).  The thread is lost: it never drops its ChildArc.
UseAfterMove(r) ==
    /\ pc[r] = "hold"
    /\ Moved
    /\ pc' = [pc EXCEPT ![r] = "lost"]
    /\ UNCHANGED << cellVars, ownerVars, weak, n, res, madeLocked, afterLock,
                    afterUnlock, afterMove, lockedWeak, payload0, otherVars,
                    muts, tuLive, tuZero >>

\* Drop for ChildArc: let mut n = strong.load(Relaxed);
ReleaseLoad(r) ==
    /\ pc[r] = "hold"
    /\ n' = [n EXCEPT ![r] = strong]
    /\ pc' = [pc EXCEPT ![r] = "rel_cas"]
    /\ UNCHANGED << cellVars, ownerVars, weak, res, madeLocked, afterLock,
                    afterUnlock, afterMove, lockedWeak, payload0, otherVars,
                    muts, tuLive, tuZero >>

\* One iteration of the loop around compare_exchange_weak(n, n - 1).  A
\* negative strong stands for the wrapped usize of n - 1 at n = 0.
ReleaseCas(r) ==
    /\ pc[r] = "rel_cas"
    /\ IF StrongCasOk(strong, n[r])
         THEN /\ strong' = n[r] - 1
              /\ pc' = [pc EXCEPT ![r] = "idle"]
              /\ res' = [res EXCEPT ![r] = "none"]
              /\ madeLocked' = [madeLocked EXCEPT ![r] = FALSE]
              /\ afterLock' = [afterLock EXCEPT ![r] = FALSE]
              /\ afterUnlock' = [afterUnlock EXCEPT ![r] = FALSE]
              /\ afterMove' = [afterMove EXCEPT ![r] = FALSE]
              /\ before' = before \ {r}
              /\ tuLive' = tuLive \ {r}
              /\ n' = [n EXCEPT ![r] = 0]
         ELSE /\ n' = [n EXCEPT ![r] = strong]
              /\ UNCHANGED << strong, pc, res, madeLocked, afterLock,
                              afterUnlock, afterMove, before, tuLive >>
    /\ UNCHANGED << lock, data, consumedBy, got, opc, ores, iters, hadBefore,
                    lockRet, unlockRet, tuLock, weak, lockedWeak, payload0,
                    otherVars, muts, tuZero >>

ReaderStep(r) ==
    \/ UpgradeReadLock(r)
    \/ UpgradeLoad(r)
    \/ UpgradeCas(r)
    \/ Mutate(r)
    \/ UseAfterMove(r)
    \/ ReleaseLoad(r)
    \/ ReleaseCas(r)

\* ------------------------------------------------------ the owner thread
\* The ParentArc exists and no operation on it is running.
OwnerReady == opc = "idle" /\ consumedBy = "none"

NoReader == [r \in Readers |-> FALSE]

\* while this.strong.load(Acquire) != 0 {}   (block_into_inner and Drop)
WaitAgainNever(s) == FALSE
WaitAgain(s) == s # 0

\* try_unwrap: !this.lock.load(Relaxed) && this.strong.load(Relaxed) > 0
TuLockClearNegated(l) == l
TuLockClear(l) == ~l
TuWouldLock(s) == s > 0
\* try_unwrap: this.strong.load(Relaxed) != 0
TuWouldBlock(s) == s # 0

\* What every call of a ParentArc operation does to the history: the
\* result and the try_unwrap history of the previous call are forgotten.
Called ==
    /\ ores' = "none"
    /\ tuLock' = FALSE
    /\ tuLive' = {}
    /\ tuZero' = "no"
    /\ iters' = 0

\* The owner has called something else than unlock() since unlock() returned.
LeftUnlocked ==
    /\ unlockRet' = FALSE
    /\ afterUnlock' = NoReader

\* ParentArc::lock is called.
LockCall ==
    /\ OwnerReady
    /\ Called
    /\ LeftUnlocked
    /\ opc' = "lock_cas"
    /\ UNCHANGED << cellVars, before, hadBefore, lockRet, weak, pc, n, res,
                    madeLocked, afterLock, afterMove, lockedWeak, payload0,
                    otherVars, muts >>

\* One iteration of lock()'s loop, the owner being at `at` and going to
\* `after` when lock() returns: the CAS, then the test of what it returned.
LockLoop(at, after) ==
    /\ opc = at
    /\ lock' = LockCasVal(lock)
    /\ IF LockLoopAgain(lock)
         THEN /\ iters' = Min(iters + 1, MaxIters)
              /\ UNCHANGED << opc, ores, lockRet >>
         ELSE /\ iters' = 0
              /\ lockRet' = TRUE
              /\ opc' = after
              /\ ores' = IF after = "idle" THEN "unit" ELSE ores
    /\ UNCHANGED << strong, data, consumedBy, got, before, hadBefore,
                    unlockRet, tuLock, readerVars, payload0, otherVars, muts,
                    tuLive, tuZero >>

\* lock() called by the owner.
LockCas == LockLoop("lock_cas", "idle")

\* self.lock() as the first statement of block_into_inner.
BiiLock == LockLoop("bii_lock", "bii_wait")

\* ParentArc::unlock is called.
UnlockCall ==
    /\ OwnerReady
    /\ Called
    /\ opc' = "unlock_cas"
    /\ UNCHANGED << cellVars, before, hadBefore, lockRet, unlockRet,
                    readerVars, payload0, otherVars, muts >>

\* One iteration of unlock()'s loop.
UnlockCas ==
    /\ opc = "unlock_cas"
    /\ lock' = UnlockCasVal(lock)
    /\ IF lock' = FALSE
         THEN lockRet' = FALSE /\ afterLock' = NoReader
              /\ lockedWeak' = NoReader
         ELSE UNCHANGED << lockRet, afterLock, lockedWeak >>
    /\ IF UnlockLoopAgain(lock)
         THEN /\ iters' = Min(iters + 1, MaxIters)
              /\ UNCHANGED << opc, ores, unlockRet >>
         ELSE /\ iters' = 0
              /\ opc' = "idle"
              /\ ores' = "unit"
              /\ unlockRet' = TRUE
    /\ UNCHANGED << strong, data, consumedBy, got, before, hadBefore, tuLock,
                    weak, pc, n, res, madeLocked, afterUnlock, afterMove,
                    payload0, otherVars, muts, tuLive, tuZero >>

\* ParentArc::is_locked: self.inner().lock.load(Relaxed)
IsLocked ==
    /\ OwnerReady
    /\ ores' = IF lock THEN "true" ELSE "false"
    /\ tuLock' = FALSE
    /\ tuLive' = {}
    /\ tuZero' = "no"
    /\ UNCHANGED << cellVars, opc, iters, before, hadBefore, lockRet,
                    unlockRet, readerVars, payload0, otherVars, muts >>

\* ParentArc::downgrade, the LockWeak being given to reader r.
Downgrade(r) ==
    /\ OwnerReady
    /\ ~weak[r]
    /\ ores' = "Weak"
    /\ tuLock' = FALSE
    /\ tuLive' = {}
    /\ tuZero' = "no"
    /\ weak' = [weak EXCEPT ![r] = TRUE]
    /\ lockedWeak' = [lockedWeak EXCEPT ![r] = lock]
    /\ UNCHANGED << cellVars, opc, iters, before, hadBefore, lockRet,
                    unlockRet, pc, n, res, madeLocked, afterLock, afterUnlock,
                    afterMove, payload0, otherVars, muts >>

\* try_downgrade: if other.inner().lock.load(Relaxed) { return None; }
TryDowngradeRefusedNever(l) == FALSE
TryDowngradeRefused(l) == l

\* ParentArc::try_downgrade: None when the flag is read true.
TryDowngrade(r) ==
    /\ OwnerReady
    /\ IF TryDowngradeRefused(lock)
         THEN ores' = "None" /\ weak' = weak
         ELSE ores' = "Some" /\ weak' = [weak EXCEPT ![r] = TRUE]
    /\ tuLock' = FALSE
    /\ tuLive' = {}
    /\ tuZero' = "no"
    /\ UNCHANGED << cellVars, opc, iters, before, hadBefore, lockRet,
                    unlockRet, pc, n, res, madeLocked, afterLock, afterUnlock,
                    afterMove, lockedWeak, payload0, otherVars, muts >>

\* ParentArc::block_into_inner is called; its first statement is self.lock().
BlockIntoInnerCall ==
    /\ OwnerReady
    /\ Called
    /\ LeftUnlocked
    /\ opc' = "bii_lock"
    /\ before' = LiveSet
    /\ hadBefore' = (LiveSet # {})
    /\ UNCHANGED << cellVars, lockRet, weak, pc, n, res, madeLocked,
                    afterLock, afterMove, lockedWeak, payload0, otherVars,
                    muts >>

\* One iteration of: while this.strong.load(Acquire) != 0 {}
BiiWait ==
    /\ opc = "bii_wait"
    /\ IF WaitAgain(strong)
         THEN opc' = opc
         ELSE opc' = "bii_take"
    /\ UNCHANGED << cellVars, ores, iters, before, hadBefore, lockRet,
                    unlockRet, tuLock, readerVars, payload0, otherVars, muts,
                    tuLive, tuZero >>

\* let elem = ptr::read(&this.data): the value handed to the caller.
BiiElemZeroed(d) == 0
BiiElem(d) == d

\* let elem = ptr::read(&this.data); mem::forget(self); elem
BiiTake ==
    /\ opc = "bii_take"
    /\ got' = BiiElem(data)
    /\ consumedBy' = "block_into_inner"
    /\ opc' = "idle"
    /\ ores' = "Ok"
    /\ UNCHANGED << lock, strong, data, iters, before, hadBefore, lockRet,
                    unlockRet, tuLock, readerVars, payload0, otherVars, muts,
                    tuLive, tuZero >>

\* ParentArc::try_unwrap is called.
TryUnwrapCall ==
    /\ OwnerReady
    /\ LeftUnlocked
    /\ opc' = "tu_lock"
    /\ ores' = "none"
    /\ iters' = 0
    /\ tuLock' = lock
    /\ tuLive' = LiveSet
    /\ tuZero' = IF strong = 0 THEN "yes" ELSE "no"
    /\ UNCHANGED << cellVars, before, hadBefore, lockRet, weak, pc, n, res,
                    madeLocked, afterLock, afterMove, lockedWeak, payload0,
                    otherVars, muts >>

\* Err(WouldLock(other)) and Err(WouldBlock(other)): try_unwrap has only
\* loaded, the flag is what it was.
TuErrLocks(l) == TRUE
TuErrLeavesLock(l) == l

\* In try_unwrap iters counts the loads made so far.
\* !this.lock.load(Relaxed) && ...: strong is loaded only if the flag is clear.
TuReadLock ==
    /\ opc = "tu_lock"
    /\ IF TuLockClear(lock)
         THEN opc' = "tu_strong1"
         ELSE opc' = "tu_strong2"
    /\ iters' = Min(iters + 1, MaxIters)
    /\ UNCHANGED << cellVars, ores, before, hadBefore, lockRet, unlockRet,
                    tuLock, readerVars, payload0, otherVars, muts, tuLive,
                    tuZero >>

\* ... && this.strong.load(Relaxed) > 0 => Err(WouldLock(other))
TuStrong1 ==
    /\ opc = "tu_strong1"
    /\ IF TuWouldLock(strong)
         THEN /\ opc' = "idle"
              /\ ores' = "WouldLock"
              /\ lock' = TuErrLeavesLock(lock)
              /\ iters' = 0
         ELSE /\ opc' = "tu_strong2"
              /\ iters' = Min(iters + 1, MaxIters)
              /\ UNCHANGED << ores, lock >>
    /\ UNCHANGED << strong, data, consumedBy, got, before, hadBefore, lockRet,
                    unlockRet, tuLock, readerVars, payload0, otherVars, muts,
                    tuLive, tuZero >>

\* if this.strong.load(Relaxed) != 0 { return Err(WouldBlock(other)); }
\* the owner's position after the load: back to the caller, or on.
TuStrong2NextWaits(s) == IF s # 0 THEN "tu_strong2" ELSE "tu_take"
TuStrong2Next(s) == IF TuWouldBlock(s) THEN "idle" ELSE "tu_take"

TuStrong2 ==
    /\ opc = "tu_strong2"
    /\ opc' = TuStrong2Next(strong)
    /\ IF opc' = "idle"
         THEN /\ ores' = "WouldBlock"
              /\ lock' = TuErrLeavesLock(lock)
              /\ iters' = 0
         ELSE /\ iters' = Min(iters + 1, MaxIters)
              /\ UNCHANGED << ores, lock >>
    /\ UNCHANGED << strong, data, consumedBy, got, before, hadBefore, lockRet,
                    unlockRet, tuLock, readerVars, payload0, otherVars, muts,
                    tuLive, tuZero >>

\* let elem = ptr::read(&this.data): the value handed to the caller.
TuElemZeroed(d) == 0
TuElem(d) == d

\* let elem = ptr::read(&this.data); mem::forget(other); Ok(elem)
TuTake ==
    /\ opc = "tu_take"
    /\ got' = TuElem(data)
    /\ consumedBy' = "try_unwrap"
    /\ opc' = "idle"
    /\ ores' = "Ok"
    /\ iters' = 0
    /\ UNCHANGED << lock, strong, data, before, hadBefore, lockRet, unlockRet,
                    tuLock, readerVars, payload0, otherVars, muts, tuLive,
                    tuZero >>

\* The ParentArc goes out of scope: Drop for ParentArc starts.
DropCall ==
    /\ OwnerReady
    /\ Called
    /\ LeftUnlocked
    /\ opc' = "drop_wait"
    /\ before' = LiveSet
    /\ hadBefore' = (LiveSet # {})
    /\ UNCHANGED << cellVars, lockRet, weak, pc, n, res, madeLocked,
                    afterLock, afterMove, lockedWeak, payload0, otherVars,
                    muts >>

\* One iteration of Drop's: while this.strong.load(Acquire) != 0 {}
DropWait ==
    /\ opc = "drop_wait"
    /\ IF WaitAgain(strong)
         THEN UNCHANGED << opc, ores, consumedBy >>
         ELSE opc' = "idle" /\ ores' = "unit" /\ consumedBy' = "drop"
    /\ UNCHANGED << lock, strong, data, got, iters, before, hadBefore,
                    lockRet, unlockRet, tuLock, readerVars, payload0,
                    otherVars, muts, tuLive, tuZero >>

OwnerStep ==
    \/ LockCall
    \/ LockCas
    \/ UnlockCall
    \/ UnlockCas
    \/ IsLocked
    \/ \E r \in Readers : Downgrade(r)
    \/ \E r \in Readers : TryDowngrade(r)
    \/ BlockIntoInnerCall
    \/ BiiLock
    \/ BiiWait
    \/ BiiTake
    \/ TryUnwrapCall
    \/ TuReadLock
    \/ TuStrong1
    \/ TuStrong2
    \/ TuTake
    \/ DropCall
    \/ DropWait

Next == OwnerStep \/ \E r \in Readers : ReaderStep(r)

Spec == Init /\ [][Next]_vars

\* Fair scheduling: the owner thread and every reader thread that has a
\* next instruction eventually executes it; a reader that holds a ChildArc
\* eventually drops it.
FairSpec ==
    /\ Spec
    /\ WF_vars(OwnerStep)
    /\ \A r \in Readers :
          /\ WF_vars(UpgradeLoad(r) \/ UpgradeCas(r))
          /\ WF_vars(ReleaseLoad(r))
          /\ WF_vars(ReleaseCas(r))

\* The readers of tests::loop_read_thread and many_loop_read_threads: fair
\* scheduling, and a reader that is between two upgrades calls upgrade again
\* (loop { match weak.upgrade() { Some(..) => .., None => break } }).
LoopFairSpec ==
    /\ FairSpec
    /\ \A r \in Readers : WF_vars(UpgradeReadLock(r))

\* ========================================================================
\* The Arc-based variant (src/src/sync.rs).  The strong count is that of
\* std::sync::Arc: Weak::upgrade increments it by a CAS loop unless it reads
\* 0, Arc::try_unwrap is compare_exchange(1, 0), dropping an Arc is
\* fetch_sub(1).  One thread owns the LockArcs; the readers own LockWeaks.

\* What the operations on LockArcs and LockWeaks leave alone.
arcFrame == << parcVars, timedVars, panicked, conVars >>

\* LockArc::downgrade(other): LockWeak::from, given to reader r.
ArcDowngrade(a, r) ==
    /\ aOwn[a] = "held"
    /\ r \notin aWeak[a]
    /\ aWeak' = [aWeak EXCEPT ![a] = @ \cup {r}]
    /\ UNCHANGED << aLock, aStrong, aCtx, aOwn, aGot, wpc, wat, wn, wres,
                    aNone, wLocked, wAfterNone, arcFrame >>

\* lock_arc(self) is called, by the caller ("lock_arc") or as the argument
\* of Arc::try_unwrap in consumme ("consumme_lock").
ArcLockCall(a, via) ==
    /\ aOwn[a] = "held"
    /\ aOwn' = [aOwn EXCEPT ![a] = via]
    /\ UNCHANGED << aLock, aStrong, aCtx, aGot, aWeak, wpc, wat, wn, wres,
                    aNone, wLocked, wAfterNone, arcFrame >>

LockArcCall(a) == ArcLockCall(a, "lock_arc")
ConsummeCall(a) == ArcLockCall(a, "consumme_lock")

\* One iteration of: while self.lock.compare_and_swap(false, true) {}
\* then self.inner is returned: to the caller, or to Arc::try_unwrap.
ArcLockCas(a) ==
    /\ aOwn[a] \in {"lock_arc", "consumme_lock"}
    /\ aLock' = [aLock EXCEPT ![a] = LockCasVal(aLock[a])]
    /\ IF LockLoopAgain(aLock[a])
         THEN aOwn' = aOwn
         ELSE aOwn' = [aOwn EXCEPT ![a] = IF aOwn[a] = "lock_arc"
                                            THEN "arc"
                                            ELSE "try_unwrap"]
    /\ UNCHANGED << aStrong, aCtx, aGot, aWeak, wpc, wat, wn, wres, aNone,
                    wLocked, wAfterNone, arcFrame >>

\* Arc::try_unwrap: strong.compare_exchange(1, 0) succeeds iff this Arc is
\* the only one.
TryUnwrapOkAlways(s) == TRUE
TryUnwrapOk(s) == s = 1

\* match Arc::try_unwrap(..) { Ok(inner) => inner, Err(_) => unreachable!() }
ConsummeTryUnwrap(a) ==
    /\ aOwn[a] = "try_unwrap"
    /\ IF TryUnwrapOk(aStrong[a])
         THEN /\ aStrong' = [aStrong EXCEPT ![a] = 0]
              /\ aGot' = [aGot EXCEPT ![a] = aCtx[a]]
              /\ aOwn' = [aOwn EXCEPT ![a] = "value"]
         ELSE /\ aOwn' = [aOwn EXCEPT ![a] = "unreachable"]
              /\ UNCHANGED << aStrong, aGot >>
    /\ UNCHANGED << aLock, aCtx, aWeak, wpc, wat, wn, wres, aNone, wLocked,
                    wAfterNone, arcFrame >>

\* The owner drops an Arc<T> it holds (fetch_sub(1)): the LockArc itself
\* dropped without lock_arc ("held"), the Arc that lock_arc returned
\* ("arc"), or the Arc inside Err(_) when the panic of unreachable!() unwinds.
ArcOwnerDrop(a) ==
    /\ aOwn[a] \in {"held", "arc", "unreachable"}
    /\ aStrong' = [aStrong EXCEPT ![a] = @ - 1]
    /\ aOwn' = [aOwn EXCEPT ![a] = IF aOwn[a] = "unreachable"
                                     THEN "panicked"
                                     ELSE "dropped"]
    /\ UNCHANGED << aLock, aCtx, aGot, aWeak, wpc, wat, wn, wres, aNone,
                    wLocked, wAfterNone, arcFrame >>

\* LockWeak::upgrade: if self.lock.load(Acquire) { None } else { .. }
ArcUpgradeRefusedNever(l) == FALSE
ArcUpgradeRefused(l) == l

\* LockWeak::upgrade is called by reader r on its LockWeak of a and loads
\* the flag; when it reads false it goes on to self.inner.upgrade().
ArcUpgradeReadLock(r, a) ==
    /\ wpc[r] = "idle"
    /\ r \in aWeak[a]
    /\ wat' = [wat EXCEPT ![r] = a]
    /\ wLocked' = [wLocked EXCEPT ![r] = aLock[a]]
    /\ wAfterNone' = [wAfterNone EXCEPT ![r] = aNone[a]]
    /\ IF ArcUpgradeRefused(aLock[a])
         THEN /\ wres' = [wres EXCEPT ![r] = "None"]
              /\ aNone' = [aNone EXCEPT ![a] = TRUE]
              /\ wpc' = wpc
         ELSE /\ wres' = [wres EXCEPT ![r] = "none"]
              /\ wpc' = [wpc EXCEPT ![r] = "w_load"]
              /\ aNone' = aNone
    /\ UNCHANGED << aLock, aStrong, aCtx, aOwn, aGot, aWeak, wn, arcFrame >>

\* Weak::upgrade: let mut n = inner.strong.load(Relaxed);
WeakUpgradeLoad(r) ==
    /\ wpc[r] = "w_load"
    /\ wn' = [wn EXCEPT ![r] = aStrong[wat[r]]]
    /\ wpc' = [wpc EXCEPT ![r] = "w_cas"]
    /\ UNCHANGED << aLock, aStrong, aCtx, aOwn, aGot, aWeak, wat, wres, aNone,
                    wLocked, wAfterNone, arcFrame >>

\* One iteration of Weak::upgrade's loop: if n == 0 { return None; } then
\* compare_exchange_weak(n, n + 1): Ok => Some(Arc), Err(old) => n = old.
WeakUpgradeCas(r) ==
    /\ wpc[r] = "w_cas"
    /\ IF wn[r] = 0
         THEN /\ wres' = [wres EXCEPT ![r] = "None"]
              /\ aNone' = [aNone EXCEPT ![wat[r]] = TRUE]
              /\ wpc' = [wpc EXCEPT ![r] = "idle"]
              /\ UNCHANGED << aStrong, wn >>
         ELSE IF StrongCasOk(aStrong[wat[r]], wn[r])
           THEN /\ aStrong' = [aStrong EXCEPT ![wat[r]] = wn[r] + 1]
                /\ wres' = [wres EXCEPT ![r] = "Some"]
                /\ wpc' = [wpc EXCEPT ![r] = "hold"]
                /\ wn' = [wn EXCEPT ![r] = 0]
                /\ aNone' = aNone
           ELSE /\ wn' = [wn EXCEPT ![r] = aStrong[wat[r]]]
                /\ UNCHANGED << aStrong, wres, wpc, aNone >>
    /\ UNCHANGED << aLock, aCtx, aOwn, aGot, aWeak, wat, wLocked, wAfterNone,
                    arcFrame >>

\* The reader writes field .0 of the context through its Arc
\* (strong.lock().unwrap().0 = 1 in the tests of src/src/contracts).
ArcWrite(r) ==
    /\ wpc[r] = "hold"
    /\ \E v \in CtxVals :
          /\ v # aCtx[wat[r]][1]
          /\ aCtx' = [aCtx EXCEPT ![wat[r]] = << v, @[2] >>]
    /\ written' = TRUE
    /\ UNCHANGED << aLock, aStrong, aOwn, aGot, aWeak, wpc, wat, wn, wres,
                    aNone, wLocked, wAfterNone, parcVars, timedVars, panicked,
                    conRest >>

\* The reader drops its Arc: strong.fetch_sub(1).
ArcRelease(r) ==
    /\ wpc[r] = "hold"
    /\ aStrong' = [aStrong EXCEPT ![wat[r]] = @ - 1]
    /\ wpc' = [wpc EXCEPT ![r] = "idle"]
    /\ wres' = [wres EXCEPT ![r] = "none"]
    /\ wLocked' = [wLocked EXCEPT ![r] = FALSE]
    /\ wAfterNone' = [wAfterNone EXCEPT ![r] = FALSE]
    /\ UNCHANGED << aLock, aCtx, aOwn, aGot, aWeak, wat, wn, aNone, arcFrame >>

\* A reader of LockArc a that upgrades, holds and releases.
ArcReaderStep(r, a) ==
    \/ ArcUpgradeReadLock(r, a)
    \/ /\ wat[r] = a
       /\ \/ WeakUpgradeLoad(r)
          \/ WeakUpgradeCas(r)
          \/ ArcRelease(r)

\* The LockArc API used directly, on one LockArc: downgrade, lock_arc
\* (the caller then holds the Arc and drops it), consumme, drop.
ArcOwnerStep(a) ==
    \/ \E r \in Readers : ArcDowngrade(a, r)
    \/ LockArcCall(a)
    \/ ConsummeCall(a)
    \/ ArcLockCas(a)
    \/ ConsummeTryUnwrap(a)
    \/ ArcOwnerDrop(a)

ArcNext == \E a \in OneArc :
              ArcOwnerStep(a) \/ \E r \in Readers : ArcReaderStep(r, a)

\* The parc cell of these specifications is not used.
ArcSpecInit ==
    /\ ParcInit
    /\ payload0 = 0
    /\ \E c \in Contexts : ArcInit([a \in Arcs |-> c])
    /\ UserInit

ArcSpec == ArcSpecInit /\ [][ArcNext]_vars

\* ========================================================================
\* tests::one_panic_read_threads: the owner downgrades for every reader
\* thread and calls block_into_inner; a reader that got Some(ChildArc) may
\* panic, and the unwinding drops its ChildArc.
Panic(r) ==
    /\ pc[r] = "hold"
    /\ r \notin panicked
    /\ panicked' = panicked \cup {r}
    /\ UNCHANGED << parcVars, timedVars, arcVars, conVars >>

\* What a panicked thread still executes: Drop for ChildArc.
UnwindNoDrop(r) == FALSE
UnwindStep(r) == ReleaseLoad(r) \/ ReleaseCas(r)

PanicReaderStep(r) ==
    \/ r \in panicked /\ UnwindStep(r)
    \/ r \notin panicked /\ (ReaderStep(r) \/ Panic(r))

PanicOwnerStep ==
    \/ \E r \in Readers : Downgrade(r)
    \/ BlockIntoInnerCall
    \/ BiiLock
    \/ BiiWait
    \/ BiiTake

PanicNext == PanicOwnerStep \/ \E r \in Readers : PanicReaderStep(r)

\* let m = ParentArc::new(sync::atomic::AtomicUsize::new(0));
PanicInit == Init /\ payload0 = 0

PanicSpec == PanicInit /\ [][PanicNext]_vars

\* Fair scheduling of the owner and of the readers, as in FairSpec.
PanicFairSpec ==
    /\ PanicSpec
    /\ WF_vars(PanicOwnerStep)
    /\ \A r \in Readers :
          /\ WF_vars(UpgradeLoad(r) \/ UpgradeCas(r))
          /\ WF_vars(r \notin panicked /\ ReleaseLoad(r))
          /\ WF_vars(r \notin panicked /\ ReleaseCas(r))
          /\ WF_vars(r \in panicked /\ UnwindStep(r))

\* ========================================================================
\* FuturesContract (src/src/contracts/futures.rs).  Its context is the
\* LockArc<Mutex<C>> number FutArc, C being the GtContext of its tests; one
\* thread polls the contract, the readers hold the LockWeaks of get_context.
FutArc == 1

\* GtContext::is_valid: self.0 > self.1
CtxValid(c) == c[1] > c[2]

\* The closure of the tests: |con| -> usize { con.0 + 5 }
OnExe(c) == c[1] + 5

\* Timer::poll: if self.expired() { Poll::Ready(()) } else { Poll::Pending }
TimerReady(e) == e

\* poll_valid / poll_prod on the context field holding LockArc a:
\* Some(c) => c.lock().unwrap().poll_valid(), None => false
PollValid(a) == aOwn[a] = "held" /\ CtxValid(aCtx[a])

\* Time passes: now - creation exceeds the duration.
Tick ==
    /\ ~expired
    /\ expired' = TRUE
    /\ UNCHANGED << parcVars, timedVars, arcVars, panicked, cpc, sawTimer,
                    sawValid, sawProd, onExe, cres, cval, calls, written >>

\* What the polling thread's steps inside poll leave alone.
pollFrame == << parcVars, timedVars, arcVars, panicked, expired, written >>

\* Future::poll is called (the contract has not panicked): the WakeIn
\* message is sent to the runner.
PollCall ==
    /\ cpc = "idle"
    /\ cres # "panic"
    /\ cpc' = "timer"
    /\ sawTimer' = FALSE
    /\ sawValid' = FALSE
    /\ sawProd' = FALSE
    /\ UNCHANGED << pollFrame, onExe, cres, cval, calls >>

\* mv.0 = self.as_mut().timer().poll(cx)
PollTimer ==
    /\ cpc = "timer"
    /\ sawTimer' = TimerReady(expired)
    /\ cpc' = "valid"
    /\ UNCHANGED << pollFrame, sawValid, sawProd, onExe, cres, cval, calls >>

\* mv.1 = self.poll_valid()
FutPollValid ==
    /\ cpc = "valid"
    /\ sawValid' = PollValid(FutArc)
    /\ cpc' = "match"
    /\ UNCHANGED << pollFrame, sawTimer, sawProd, onExe, cres, cval, calls >>

\* match mv { (Ready, true) => execute, (Pending, true) => Pending,
\*            (_, false) => void }
FutDecisionNoVoid(t, v) == IF t THEN "execute" ELSE "Pending"
FutDecision(t, v) ==
    IF ~v THEN "void" ELSE IF t THEN "execute" ELSE "Pending"

\* The arm that returns at once: Poll::Pending, or Poll::Ready(self.void())
\* with void() == Status::Terminated.
PollReturn(d) ==
    /\ d \in {"Pending", "void"}
    /\ cres' = IF d = "void" THEN "Terminated" ELSE "Pending"
    /\ cpc' = "idle"
    /\ UNCHANGED << pollFrame, sawTimer, sawValid, sawProd, onExe, cval,
                    calls >>

FutMatchReturn ==
    /\ cpc = "match"
    /\ PollReturn(FutDecision(sawTimer, sawValid))

\* execute(): self.context().take().expect(..), then lockarc.consumme() is
\* called.
FutExecute ==
    /\ cpc = "match"
    /\ FutDecision(sawTimer, sawValid) = "execute"
    /\ cpc' = "exec"
    /\ aOwn' = [aOwn EXCEPT ![FutArc] = "consumme_lock"]
    /\ UNCHANGED << parcVars, timedVars, panicked, expired, written, sawTimer,
                    sawValid, sawProd, onExe, cres, cval, calls, aLock,
                    aStrong, aCtx, aGot, aWeak, wpc, wat, wn, wres, aNone,
                    wLocked, wAfterNone >>

\* consumme() runs inside execute(); when it panics, the unwinding drops
\* the Arc of Err(_).
FutConsumme ==
    /\ cpc = "exec"
    /\ \/ ArcLockCas(FutArc)
       \/ ConsummeTryUnwrap(FutArc)
       \/ aOwn[FutArc] = "unreachable" /\ ArcOwnerDrop(FutArc)

\* consumme() returned the Mutex: .into_inner().unwrap(), on_exe.take(),
\* Status::Completed(f(context)).
FutComplete ==
    /\ cpc = "exec"
    /\ aOwn[FutArc] = "value"
    /\ onExe
    /\ onExe' = FALSE
    /\ calls' = calls + 1
    /\ cval' = OnExe(aGot[FutArc])
    /\ cres' = "Completed"
    /\ cpc' = "idle"
    /\ UNCHANGED << pollFrame, sawTimer, sawValid, sawProd >>

\* The panic of unreachable!() leaves poll: the contract is not polled again.
PollPanicked ==
    /\ cpc = "exec"
    /\ \E a \in Arcs : aOwn[a] = "panicked"
    /\ cres' = "panic"
    /\ cpc' = "idle"
    /\ UNCHANGED << pollFrame, sawTimer, sawValid, sawProd, onExe, cval,
                    calls >>

\* get_context(): Some(ref c) => Ok(LockArc::downgrade(c)); the LockWeak is
\* moved to reader r.  It takes &self: no poll is running.
FutGetContext(r) == cpc = "idle" /\ ArcDowngrade(FutArc, r)

\* A reader thread of the tests: upgrade, write field .0 through the Mutex,
\* drop the Arc.
FutReaderStep(r) == ArcReaderStep(r, FutArc) \/ ArcWrite(r)

FutNext ==
    \/ Tick
    \/ PollCall
    \/ PollTimer
    \/ FutPollValid
    \/ FutMatchReturn
    \/ FutExecute
    \/ FutConsumme
    \/ FutComplete
    \/ PollPanicked
    \/ \E r \in Readers : FutGetContext(r)
    \/ \E r \in Readers : FutReaderStep(r)

\* FuturesContract::new(expire, context, on_exe) with any GtContext.
FutInit == ArcSpecInit

FutSpec == FutInit /\ [][FutNext]_vars

\* ========================================================================
\* OnKillContract (src/rustracts/src/contracts/onkill.rs).  Its context is
\* the ParentArc<Mutex<C>> of the first part, C being the EqContext of its
\* test: field .0 is data, which the readers write, field .1 stays payload0.

\* EqContext::poll_valid: self.0 == self.1
EqValid(d) == d = payload0

\* The context field is Some: void() has not taken the ParentArc out.
KillContextSome == cpc # "void" /\ consumedBy = "none"

\* The closure of the test: |con| -> usize { con.0 + 5 }
OnVoid(d) == d + 5

\* get_context(): Some(ref c) => Ok(ParentArc::downgrade(c)),
\* None => Err(ExpiredContext)
KillGetContextResult == IF KillContextSome THEN "Ok" ELSE "ExpiredContext"

KillGetContext(r) == cpc = "idle" /\ KillContextSome /\ Downgrade(r)

\* What the steps of OnKillContract::poll leave alone.
killFrame == << parcVars, timedVars, arcVars, panicked, expired, written,
                sawTimer, sawProd >>

\* Future::poll is called: the WakeIn message is sent to the runner.
KillPollCall ==
    /\ cpc = "idle"
    /\ cres # "panic"
    /\ cpc' = "valid"
    /\ sawValid' = FALSE
    /\ UNCHANGED << killFrame, onExe, cres, cval, calls >>

\* self.poll_valid(): Some(c) => c.as_ref().lock().unwrap().poll_valid(),
\* None => false
KillPollValid ==
    /\ cpc = "valid"
    /\ sawValid' = (KillContextSome /\ EqValid(data))
    /\ cpc' = "match"
    /\ UNCHANGED << killFrame, onExe, cres, cval, calls >>

\* if !self.poll_valid() { Poll::Ready(self.void()) } else { Poll::Pending }
KillVoids(v) == ~v

\* The else branch: Poll::Pending.
KillPending ==
    /\ cpc = "match"
    /\ ~KillVoids(sawValid)
    /\ cres' = "Pending"
    /\ cpc' = "idle"
    /\ UNCHANGED << killFrame, sawValid, onExe, cval, calls >>

\* void(): self.context().take().expect("Cannot poll after expiration");
\* with the context gone the expect panics.
KillVoid ==
    /\ cpc = "match"
    /\ KillVoids(sawValid)
    /\ IF KillContextSome
         THEN cpc' = "void" /\ cres' = cres
         ELSE cpc' = "idle" /\ cres' = "panic"
    /\ UNCHANGED << killFrame, sawValid, onExe, cval, calls >>

\* lockarc.block_into_inner() runs inside void().
KillBlockIntoInner ==
    /\ cpc = "void"
    /\ \/ BlockIntoInnerCall
       \/ BiiLock
       \/ BiiWait
       \/ BiiTake

\* block_into_inner returned the Mutex: .into_inner().unwrap(),
\* on_void.take(), Status::Completed(f(context)).
KillComplete ==
    /\ cpc = "void"
    /\ opc = "idle"
    /\ consumedBy = "block_into_inner"
    /\ onExe
    /\ onExe' = FALSE
    /\ calls' = calls + 1
    /\ cval' = OnVoid(got)
    /\ cres' = "Completed"
    /\ cpc' = "idle"
    /\ UNCHANGED << killFrame, sawValid >>

KillNext ==
    \/ KillPollCall
    \/ KillPollValid
    \/ KillPending
    \/ KillVoid
    \/ KillBlockIntoInner
    \/ KillComplete
    \/ \E r \in Readers : KillGetContext(r)
    \/ \E r \in Readers : ReaderStep(r)

\* OnKillContract::new(context, on_void) with a valid EqContext.
KillSpec == Init /\ [][KillNext]_vars

\* ========================================================================
\* OptionContract (src/src/contracts/option.rs): two LockArcs, void_context
\* and prod_context, polled with the timer by one thread.
VoidArc == 1
ProdArc == 2

\* The closure of the tests: |(vcon, pcon)| -> usize { vcon.0 + pcon.0 + 1 }
OptOnExe(vcon, pcon) == vcon[1] + pcon[1] + 1

\* mv.1 = self.poll_valid(): the void context.
OptPollValid ==
    /\ cpc = "valid"
    /\ sawValid' = PollValid(VoidArc)
    /\ cpc' = "prod"
    /\ UNCHANGED << pollFrame, sawTimer, sawProd, onExe, cres, cval, calls >>

\* mv.2 = self.poll_prod(): the prod context.
OptPollProd ==
    /\ cpc = "prod"
    /\ sawProd' = PollValid(ProdArc)
    /\ cpc' = "match"
    /\ UNCHANGED << pollFrame, sawTimer, sawValid, onExe, cres, cval, calls >>

\* match mv { (Ready, true, true) => execute, (Ready, true, false) => void,
\*            (Pending, true, _) => Pending, (_, false, _) => void }
OptDecision(t, v, p) ==
    IF ~v THEN "void"
    ELSE IF ~t THEN "Pending"
    ELSE IF p THEN "execute" ELSE "void"

OptMatchReturn ==
    /\ cpc = "match"
    /\ PollReturn(OptDecision(sawTimer, sawValid, sawProd))

\* execute(): both contexts are taken out of their Options, then
\* vlockarc.consumme() is called.
OptExecute ==
    /\ cpc = "match"
    /\ OptDecision(sawTimer, sawValid, sawProd) = "execute"
    /\ cpc' = "exec"
    /\ aOwn' = [aOwn EXCEPT ![VoidArc] = "consumme_lock"]
    /\ UNCHANGED << parcVars, timedVars, panicked, expired, written, sawTimer,
                    sawValid, sawProd, onExe, cres, cval, calls, aLock,
                    aStrong, aCtx, aGot, aWeak, wpc, wat, wn, wres, aNone,
                    wLocked, wAfterNone >>

\* vlockarc.consumme() and then plockarc.consumme() run inside execute();
\* when one panics, the unwinding drops the Arc of Err(_) and, if it is
\* still there, plockarc.
OptConsumme ==
    /\ cpc = "exec"
    /\ \/ \E a \in Arcs : ArcLockCas(a)
       \/ \E a \in Arcs : ConsummeTryUnwrap(a)
       \/ aOwn[VoidArc] = "value" /\ ConsummeCall(ProdArc)
       \/ \E a \in Arcs : aOwn[a] = "unreachable" /\ ArcOwnerDrop(a)
       \/ aOwn[VoidArc] = "panicked" /\ ArcOwnerDrop(ProdArc)

\* Both consumme() returned: on_exe.take(),
\* Status::Completed(f((vcontext, pcontext))).
OptComplete ==
    /\ cpc = "exec"
    /\ aOwn[VoidArc] = "value"
    /\ aOwn[ProdArc] = "value"
    /\ onExe
    /\ onExe' = FALSE
    /\ calls' = calls + 1
    /\ cval' = OptOnExe(aGot[VoidArc], aGot[ProdArc])
    /\ cres' = "Completed"
    /\ cpc' = "idle"
    /\ UNCHANGED << pollFrame, sawTimer, sawValid, sawProd >>

\* The panic has unwound execute() and leaves poll.
OptPanicked == aOwn[ProdArc] # "held" /\ PollPanicked

\* get_context(): (Some(ref vc), Some(ref pc)) =>
\* Ok((LockWeak::from(vc), LockWeak::from(pc))), moved to reader r.
OptGetContext(r) ==
    /\ cpc = "idle"
    /\ \A a \in Arcs : aOwn[a] = "held" /\ r \notin aWeak[a]
    /\ aWeak' = [a \in Arcs |-> aWeak[a] \cup {r}]
    /\ UNCHANGED << aLock, aStrong, aCtx, aOwn, aGot, wpc, wat, wn, wres,
                    aNone, wLocked, wAfterNone, arcFrame >>

\* A reader thread of the tests, on either context.
OptReaderStep(r) == (\E a \in Arcs : ArcReaderStep(r, a)) \/ ArcWrite(r)

OptNext ==
    \/ Tick
    \/ PollCall
    \/ PollTimer
    \/ OptPollValid
    \/ OptPollProd
    \/ OptMatchReturn
    \/ OptExecute
    \/ OptConsumme
    \/ OptComplete
    \/ OptPanicked
    \/ \E r \in Readers : OptGetContext(r)
    \/ \E r \in Readers : OptReaderStep(r)

\* OptionContract::new(expire, void_c, prod_c, on_exe).
OptSpec == ArcSpecInit /\ [][OptNext]_vars

\* FusedFuture for FuturesContract:
\* is_terminated() == self.context.is_none() || self.on_exe.is_none()
FutIsTerminated == aOwn[FutArc] # "held" \/ ~onExe

\* ========================================================================
\* The timed wrapper Futures<Fut> (src/src/futures.rs): a Delay (core), the
\* inner TryFuture (f) and the slot for its Ok value (store), polled by one
\* task.  The Delay and the inner future change with time, also while a
\* poll is running.
Outcomes == {"ok", "err"} \X Payloads

timedFrame == << parcVars, arcVars, panicked, conVars >>

\* The Delay's deadline passes.
Elapse ==
    /\ ~elapsed
    /\ elapsed' = TRUE
    /\ UNCHANGED << timedFrame, tpc, fHeld, store, inner, outcome, tres,
                    repolled, storedAtCall >>

\* The inner future becomes ready: its next poll returns Ready.
InnerReady ==
    /\ inner = "pending"
    /\ inner' = "ready"
    /\ UNCHANGED << timedFrame, tpc, elapsed, fHeld, store, outcome, tres,
                    repolled, storedAtCall >>

\* Futures::poll is called.
TimedPollCall ==
    /\ tpc = "idle"
    /\ tres[1] # "panic"
    /\ tpc' = "first"
    /\ storedAtCall' = (elapsed /\ store # Nothing)
    /\ UNCHANGED << timedFrame, elapsed, fHeld, store, inner, outcome, tres,
                    repolled >>

\* poll_and_store polls a future that has already returned Ready: the
\* Future trait leaves the result open (an async block panics); it is a
\* panic, Pending, or the same Err again.
RepollResults == {<< "panic", Nothing >>, << "Pending", Nothing >>,
                  << "Err", outcome[2] >>}

\* poll returns ret.
TimedReturn(ret) ==
    /\ tres' = ret
    /\ tpc' = "idle"

\* poll_and_store with f Some and the future returning Ready(Err(err)),
\* at either call site: return Err(err), f is not taken, and poll returns
\* Poll::Ready(Err(e)).
TimedErr ==
    /\ inner' = "returned"
    /\ TimedReturn(<< "Err", outcome[2] >>)
    /\ UNCHANGED << fHeld, store, repolled >>

\* poll_and_store with f Some, on a future that had returned Ready.
TimedRepoll ==
    /\ repolled' = TRUE
    /\ \E ret \in RepollResults :
          IF ret[1] = "Pending"
            THEN tpc' = "core" /\ tres' = tres
            ELSE TimedReturn(ret)
    /\ UNCHANGED << fHeld, store, inner >>

\* if let Err(e) = self.as_mut().poll_and_store(cx) { return Ready(Err(e)) }
\* Ok(ok) is stored (store is None whenever f is Some) and f is dropped.
TimedFirst ==
    /\ tpc = "first"
    /\ IF ~fHeld \/ inner = "pending"
         THEN /\ tpc' = "core"
              /\ UNCHANGED << fHeld, store, inner, tres, repolled >>
         ELSE IF inner = "returned"
           THEN TimedRepoll
           ELSE IF outcome[1] = "err"
             THEN TimedErr
             ELSE /\ store' = outcome[2]
                  /\ fHeld' = FALSE
                  /\ inner' = "returned"
                  /\ tpc' = "core"
                  /\ UNCHANGED << tres, repolled >>
    /\ UNCHANGED << timedFrame, elapsed, outcome, storedAtCall >>

\* ready!(self.as_mut().core().poll(cx)): Pending is returned unless the
\* Delay has elapsed.
CoreReadyAlways(e) == TRUE
CoreReady(e) == e

TimedCore ==
    /\ tpc = "core"
    /\ IF CoreReady(elapsed)
         THEN tpc' = "take" /\ tres' = tres
         ELSE TimedReturn(<< "Pending", Nothing >>)
    /\ UNCHANGED << timedFrame, elapsed, fHeld, store, inner, outcome,
                    repolled, storedAtCall >>

\* if let Some(value) = self.as_mut().store().take() { Either::Left(value) }
TimedTake ==
    /\ tpc = "take"
    /\ IF store # Nothing
         THEN /\ TimedReturn(<< "Left", store >>)
              /\ store' = Nothing
         ELSE /\ tpc' = "second"
              /\ UNCHANGED << store, tres >>
    /\ UNCHANGED << timedFrame, elapsed, fHeld, inner, outcome, repolled,
                    storedAtCall >>

\* What is left in f after Ok(false) with f Some: f.take() is given back in
\* Either::Right(fut).
RightKeepsF(h) == h
RightTakesF(h) == FALSE

\* else { match self.as_mut().poll_and_store(cx) { Ok(true) => Left(..),
\* Ok(false) => Right(fut) or (f None) Pending, Err(e) => Ready(Err(e)) } }
TimedSecond ==
    /\ tpc = "second"
    /\ IF ~fHeld
         THEN /\ TimedReturn(<< "Pending", Nothing >>)
              /\ UNCHANGED << fHeld, store, inner, repolled >>
         ELSE IF inner = "pending"
           THEN /\ TimedReturn(<< "Right", Nothing >>)
                /\ fHeld' = RightTakesF(fHeld)
                /\ UNCHANGED << store, inner, repolled >>
           ELSE IF inner = "returned"
             THEN TimedRepoll
             ELSE IF outcome[1] = "err"
               THEN TimedErr
               ELSE /\ TimedReturn(<< "Left", outcome[2] >>)
                    /\ fHeld' = FALSE
                    /\ inner' = "returned"
                    /\ UNCHANGED << store, repolled >>
    /\ UNCHANGED << timedFrame, elapsed, outcome, storedAtCall >>

\* FusedFuture for Futures: is_terminated() == self.f.is_none()
TimedIsTerminated == ~fHeld

TimedNext ==
    \/ Elapse
    \/ InnerReady
    \/ TimedPollCall
    \/ TimedFirst
    \/ TimedCore
    \/ TimedTake
    \/ TimedSecond

\* Nothing else than the wrapper is used.
TimedSpecInit ==
    /\ ParcInit
    /\ payload0 = 0
    /\ ArcInit(ZeroCtx)
    /\ ConInit
    /\ \E o \in Outcomes : TimedInit(o)

TimedSpec == TimedSpecInit /\ [][TimedNext]_vars

\* =================================================================== claims

\* C1: no upgrade completes its increment (and returns Some) at a moment
\* when lock_flag is true: every live ChildArc was made with the flag false.
C1_LockGate == \A r \in Readers : Live(r) => ~madeLocked[r]

\* C2: in every state where the cell was consumed by block_into_inner,
\* live_readers is 0 and no ChildArc is live.
C2_WaitForZeroSufficient ==
    consumedBy = "block_into_inner" => (strong = 0 /\ LiveSet = {})

\* C3: when block_into_inner has observed zero and returns the payload,
\* every ChildArc that was live at its call has completed its decrement.
C3_ReturnsAfterEarlierReaders ==
    (opc = "bii_take" \/ consumedBy = "block_into_inner") => before = {}

\* C3 witness: block_into_inner was called with a ChildArc live, and returned.
C3_Witness == consumedBy = "block_into_inner" /\ hadBefore

\* C4: under fair scheduling a call of block_into_inner returns, from the
\* Unlocked state and from the Locked state alike.
C4_BlockIntoInnerTerminates ==
    (opc = "bii_lock") ~> (consumedBy = "block_into_inner")

\* C5: lock() called while lock_flag is already true returns, leaving the
\* flag true, as it does from false.
C5_LockIdempotent ==
    (opc = "lock_cas" /\ lock) ~> (opc = "idle" /\ lock)

\* C6: an upgrade that starts after lock() has returned, and before an
\* unlock() has taken effect, returns None: it never passes the gate.
C6_NoUpgradeAfterLock ==
    \A r \in Readers : afterLock[r] => (res[r] = "None" /\ ~PastGate(r))

\* C6 witness: a reader's upgrade started after lock() returned and failed,
\* the owner not having consumed the cell.
C6_Witness ==
    \E r \in Readers : afterLock[r] /\ res[r] = "None" /\ opc = "idle"
                       /\ ores = "unit" /\ consumedBy = "none"

\* C7: unlock() returns after at most one repeat of its loop and leaves
\* lock_flag false (is_locked() then returns false); an upgrade started
\* after it returned, by a reader whose previous upgrade had failed, passes
\* the gate and its ChildArc reads the payload given to new (plus the
\* writes made through ChildArcs).
C7_Unlock ==
    /\ opc = "unlock_cas" => iters <= 1
    /\ unlockRet => ~lock
    /\ (unlockRet /\ ores \in {"true", "false"}) => ores = "false"
    /\ \A r \in Readers :
          afterUnlock[r] =>
             /\ res[r] # "None"
             /\ PastGate(r)
             /\ Live(r) => ReadVals = {payload0 + muts}

\* C7 witness: a reader that failed to upgrade while locked holds a ChildArc
\* from an upgrade started after unlock() returned, the payload untouched.
C7_Witness ==
    \E r \in Readers : afterUnlock[r] /\ Live(r) /\ muts = 0
                       /\ ReadVals = {payload0}

\* C8: live_readers equals the number of ChildArcs whose increment has
\* completed and whose decrement has not, and is never negative.
C8_ReaderCount == strong = Cardinality(LiveSet) /\ strong >= 0

\* C8 witness: a CAS is about to fail on contention (its n is stale) while
\* another ChildArc is live.
C8_Witness ==
    \E r \in Readers : pc[r] \in {"up_cas", "rel_cas"} /\ n[r] # strong
                       /\ \E q \in Readers \ {r} : Live(q)

\* C9: once the payload has been moved out (by block_into_inner or by
\* try_unwrap), an upgrade that starts afterwards returns None and makes
\* no ChildArc.
C9_NoUpgradeAfterConsumed ==
    \A r \in Readers : afterMove[r] => (res[r] = "None" /\ ~PastGate(r))

\* C10: a try_unwrap during all of which some ChildArc was live returns
\* WouldLock if lock_flag was false and WouldBlock if it was true.
C10_TryUnwrapClass ==
    (ores \in {"WouldLock", "WouldBlock", "Ok"} /\ tuLive # {}) =>
        ores = IF tuLock THEN "WouldBlock" ELSE "WouldLock"

\* C10 witness: try_unwrap returned WouldBlock on a locked cell with a
\* ChildArc live throughout.
C10_Witness == ores = "WouldBlock" /\ tuLock /\ tuLive # {}

\* C11: try_unwrap returns WouldBlock only on a locked cell: whenever it
\* returned WouldBlock, lock_flag was true at its call (and, the owner being
\* the only thread that writes the flag, during all of the call).
C11_WouldBlockOnlyLocked == ores = "WouldBlock" => (tuLock /\ lock)

\* The last operation that returned is a try_unwrap.
TuReturned ==
    opc = "idle" /\ (ores \in {"WouldLock", "WouldBlock"}
                     \/ (ores = "Ok" /\ consumedBy = "try_unwrap"))

\* C12 as stated: a try_unwrap called when live_readers == 0 succeeds,
\* whatever lock_flag is, and hands out the value block_into_inner would
\* hand out.
C12_ZeroAtCallSucceeds ==
    (TuReturned /\ tuZero # "no") =>
        (ores = "Ok" /\ got = BiiElem(payload0 + muts))

\* C12 amended: a try_unwrap called when live_readers == 0, during which no
\* upgrade completes its increment, succeeds in both lock states and hands
\* out the value block_into_inner would hand out from the same state: the
\* payload given to new plus the writes made through ChildArcs.
C12_QuietTryUnwrap ==
    (TuReturned /\ tuZero = "yes") =>
        (ores = "Ok" /\ got = BiiElem(payload0 + muts))

\* C12 witness: try_unwrap succeeded on a locked cell that readers had
\* written to, no increment having completed since its call.
C12_Witness ==
    TuReturned /\ tuZero = "yes" /\ ores = "Ok" /\ tuLock /\ muts > 0

\* C13: after try_unwrap has returned WouldLock or WouldBlock the ParentArc
\* is handed back and the cell is as it was: nothing was moved out,
\* lock_flag is what it was at the call, the payload is the one given to
\* new plus the readers' writes, live_readers counts the live ChildArcs,
\* and the owner can call lock, downgrade and try_unwrap again.
C13_FailedTryUnwrap ==
    (opc = "idle" /\ ores \in {"WouldLock", "WouldBlock"}) =>
        /\ consumedBy = "none"
        /\ got = Nothing
        /\ lock = tuLock
        /\ data = payload0 + muts
        /\ strong = Cardinality(LiveSet)
        /\ ENABLED LockCall
        /\ ENABLED TryUnwrapCall
        /\ \A r \in Readers : ~weak[r] => ENABLED Downgrade(r)

\* C13 witness: try_unwrap returned WouldLock on an unlocked cell whose
\* payload a reader had written to.
C13_Witness ==
    opc = "idle" /\ ores = "WouldLock" /\ ~lock /\ muts > 0 /\ strong > 0

\* C14: try_unwrap never waits: it makes at most three loads (lock, strong,
\* strong), each of them exactly once, then returns or takes the payload;
\* wherever it stands its next step can be taken, whatever the readers do.
C14_TryUnwrapNonBlocking ==
    /\ opc = "tu_lock" => (iters = 0 /\ ENABLED TuReadLock)
    /\ opc = "tu_strong1" => (iters = 1 /\ ENABLED TuStrong1)
    /\ opc = "tu_strong2" => (iters \in {1, 2} /\ ENABLED TuStrong2)
    /\ opc = "tu_take" => (iters \in {2, 3} /\ ENABLED TuTake)

\* C14 witness: try_unwrap has made its three loads on an unlocked cell and
\* is about to take the payload while a reader is about to increment.
C14_Witness ==
    opc = "tu_take" /\ iters = 3 /\ \E r \in Readers : pc[r] = "up_cas"

\* C15: before the owner's first call the cell made by new(v) has lock_flag
\* false, live_readers 0 and payload v; and a reclamation (block_into_inner
\* or try_unwrap) that succeeds after any operations, no write having been
\* made through a ChildArc, hands out exactly v.
C15_RoundTrip ==
    /\ (opc = "idle" /\ ores = "none") =>
          (~lock /\ strong = 0 /\ data = payload0 /\ consumedBy = "none")
    /\ (Moved /\ muts = 0) => got = payload0

\* C15 witness: new(MaxPayload), a reader upgraded and was live when
\* block_into_inner was called, released without writing, and
\* block_into_inner handed the payload out.
C15_Witness ==
    /\ consumedBy = "block_into_inner"
    /\ hadBefore
    /\ muts = 0
    /\ payload0 = MaxPayload
    /\ got = MaxPayload

C17_TryDowngrade ==
    (opc = "idle" /\ ores \in {"None", "Some"}) =>
        /\ (ores = "None") <=> lock
        /\ lock <=> lockRet
        /\ ores = "Some" => \E r \in Readers : weak[r]
        /\ strong = Cardinality(LiveSet)

\* C17 witness: try_downgrade returned None on a locked cell while a
\* ChildArc made before the lock was still live.
C17_Witness == opc = "idle" /\ ores = "None" /\ lock /\ LiveSet # {}

\* C18: downgrade can be called and returns a LockWeak whenever the
\* ParentArc is at rest, with the flag false or true; after it returned the
\* flag is still what lock()/unlock() left and live_readers still counts
\* the live ChildArcs; and a LockWeak made while the flag was true gets no
\* ChildArc as long as no unlock() has taken effect.
C18_Downgrade ==
    /\ \A r \in Readers : (OwnerReady /\ ~weak[r]) => ENABLED Downgrade(r)
    /\ (opc = "idle" /\ ores = "Weak") =>
          /\ \E r \in Readers : weak[r]
          /\ lock <=> lockRet
          /\ strong = Cardinality(LiveSet)
    /\ \A r \in Readers :
          lockedWeak[r] => (lock /\ ~PastGate(r) /\ res[r] # "Some")

\* C18 witness: downgrade has just returned a LockWeak on a locked cell and
\* the reader's upgrade through it has failed.
C18_Witness ==
    /\ opc = "idle"
    /\ ores = "Weak"
    /\ \E r \in Readers : lockedWeak[r] /\ weak[r] /\ res[r] = "None"

\* C19: every step that changes lock_flag is an iteration of the loop of
\* lock() (called by the owner or by block_into_inner) or of unlock(); no
\* step of upgrade, ChildArc drop, downgrade, try_downgrade, is_locked,
\* try_unwrap or Drop for ParentArc changes it.
C19_LockFrame == [][lock' # lock => (LockCas \/ BiiLock \/ UnlockCas)]_vars

\* C19 witness: the flag set by lock() is still true after a failed
\* upgrade, an is_locked() and with a ChildArc live.
C19_Witness ==
    /\ lock
    /\ opc = "idle"
    /\ ores = "true"
    /\ \E r \in Readers : res[r] = "None"
    /\ \E r \in Readers : Live(r)

\* C20: the step in which Drop for ParentArc returns is a load of
\* live_readers that reads 0: no ChildArc is live at that step, and those
\* that were live when the drop started have completed their decrements.
C20_DropWaitsForZero ==
    [][(opc = "drop_wait" /\ opc' = "idle") =>
          (strong = 0 /\ LiveSet = {} /\ before = {}
           /\ consumedBy' = "drop")]_vars

\* C20 witness: the ParentArc was dropped while a ChildArc was live, and
\* the drop has returned.
C20_Witness == consumedBy = "drop" /\ hadBefore /\ opc = "idle"

\* C21: once lock_arc() has set the flag the Arc it returns is the only
\* strong reference, and consumme() hands out the payload: it never reaches
\* unreachable!().
C21_ConsummeNeverUnreachable ==
    \A a \in Arcs :
        /\ aOwn[a] \in {"arc", "try_unwrap"} => aStrong[a] = 1
        /\ aOwn[a] \notin {"unreachable", "panicked"}

\* C22: an upgrade called when the flag of its LockArc is set returns None at
\* once, and an upgrade called after some upgrade on a LockWeak of the same
\* LockArc has returned None never returns Some.
C22_ArcNoneStable ==
    \A r \in Readers :
        /\ wLocked[r] => (wres[r] = "None" /\ wpc[r] = "idle")
        /\ wAfterNone[r] => (wres[r] # "Some" /\ wpc[r] # "hold")

\* C22 witness: an upgrade called after the flag was set, and after an
\* earlier None, has returned None while another reader still holds an Arc.
C22_Witness ==
    \E r \in Readers :
        /\ wLocked[r]
        /\ wAfterNone[r]
        /\ wres[r] = "None"
        /\ \E q \in Readers \ {r} : wpc[q] = "hold" /\ wat[q] = wat[r]

\* C23: a step of upgrade returns None exactly when it is the load of
\* lock_flag and reads true, and then leaves live_readers as it was; an
\* upgrade that read false never goes back without a ChildArc (its loop
\* only ends by a successful CAS), and the step that ends it adds exactly 1
\* to live_readers and returns Some.
C23_UpgradeOutcome ==
    [][\A r \in Readers :
          /\ (pc[r] = "idle" /\ pc'[r] # "idle") =>
                (pc'[r] = "up_load" /\ ~lock /\ strong' = strong)
          /\ (pc[r] = "idle" /\ res'[r] = "None" /\ res[r] # "None") =>
                (pc'[r] = "idle" /\ lock /\ strong' = strong)
          /\ (pc[r] \in {"up_load", "up_cas"} /\ pc'[r] # pc[r]) =>
                pc'[r] \in {"up_cas", "hold"}
          /\ (pc[r] = "up_cas" /\ pc'[r] = "hold") =>
                (strong' = strong + 1 /\ res'[r] = "Some")
          /\ (pc[r] = "up_cas" /\ pc'[r] = "up_cas" /\ n'[r] # n[r]) =>
                strong' = strong
      ]_vars

\* C23 witness: every reader holds a ChildArc returned by upgrade.
C23_Witness ==
    /\ \A r \in Readers : pc[r] = "hold" /\ res[r] = "Some"
    /\ strong = Cardinality(Readers)

\* C24: under fair scheduling a block_into_inner that was called returns,
\* whichever readers panic while they hold a ChildArc: the unit of
\* live_readers of a panicked reader is given back by the unwinding.
C24_PanicStillReleases ==
    (opc = "bii_lock") ~> (consumedBy = "block_into_inner" /\ opc = "idle")

\* C24 witness: block_into_inner, called while a ChildArc was live, has
\* returned, a reader having panicked and dropped its ChildArc.
C24_Witness ==
    /\ consumedBy = "block_into_inner"
    /\ hadBefore
    /\ \E r \in panicked : pc[r] = "idle"
    /\ strong = 0

\* C25: once the implicit drop of the ParentArc has returned, an upgrade
\* on a LockWeak that is still around returns None: it does not pass the
\* gate, so no ChildArc comes of it.
C25_NoUpgradeAfterDrop ==
    [][\A r \in Readers :
          (consumedBy = "drop" /\ UpgradeReadLock(r)) =>
              (res'[r] = "None" /\ pc'[r] = "idle")]_vars

\* C26: from the owner's read of strong == 0 to the ptr::read that moves
\* the payload out (block_into_inner and try_unwrap alike), no ChildArc is
\* live and strong is 0.
C26_ZeroAtExtraction ==
    opc \in {"bii_take", "tu_take"} => (strong = 0 /\ LiveSet = {})

\* C27: a poll of FuturesContract returns Completed only if it found the
\* timer expired and the context valid, Pending exactly if it found the
\* timer not expired and the context valid, Terminated exactly if it found
\* the context invalid (or gone); the timer it found expired is expired;
\* and on_exe is called at most once.
C27_FutPollDecision ==
    /\ calls <= 1
    /\ (cpc = "idle" /\ cres # "none") =>
          /\ cres = "Completed" => (sawTimer /\ sawValid)
          /\ cres = "Pending" <=> (~sawTimer /\ sawValid)
          /\ cres = "Terminated" <=> ~sawValid
          /\ sawTimer => expired
    /\ cpc = "exec" => (sawTimer /\ sawValid)

\* C27 witness: a poll after the completion returned Terminated, the timer
\* being expired and on_exe having been called once.
C27_Witness ==
    cpc = "idle" /\ cres = "Terminated" /\ calls = 1 /\ sawTimer /\ ~onExe

\* C28: once FuturesContract has completed, the value it produced is the
\* closure's result (field .0 plus 5) on the context as the readers last
\* wrote it, and no reader holds an Arc through which it could still write.
C28_ValueOfLastWrite ==
    calls = 1 =>
        /\ cval = aCtx[FutArc][1] + 5
        /\ \A r \in Readers : wpc[r] # "hold"

\* C28 witness: the contract completed after a reader had written the
\* context.
C28_Witness ==
    /\ cres = "Completed"
    /\ written
    /\ cval = aCtx[FutArc][1] + 5

\* C29: OnKillContract never returns Terminated; a poll that returned
\* Pending found the context valid; and when a poll has returned Completed
\* it had found the context invalid, every ChildArc has been released, the
\* value is on_void of the context as the readers last wrote it, and
\* get_context yields ExpiredContext.
C29_OnKillCompletes ==
    /\ cres # "Terminated"
    /\ (cpc = "idle" /\ cres = "Pending") => sawValid
    /\ cres = "Completed" =>
          /\ ~sawValid
          /\ KillGetContextResult = "ExpiredContext"
          /\ LiveSet = {}
          /\ cval = data + 5

\* C30: a poll of OptionContract returns Completed exactly if it found the
\* timer expired and both contexts valid, Terminated if it found the void
\* context invalid or the timer expired with the prod context invalid, and
\* Pending if it found the timer not expired and the void context valid.
C30_OptPollDecision ==
    (cpc = "idle" /\ cres # "none") =>
        /\ cres = "Completed" <=> (sawTimer /\ sawValid /\ sawProd)
        /\ (~sawValid \/ (sawTimer /\ ~sawProd)) => cres = "Terminated"
        /\ (~sawTimer /\ sawValid) => cres = "Pending"

\* C31: when FuturesContract has returned Completed, the context that
\* consumme moved out and that on_exe was applied to is valid.
C31_CompletedFromValid ==
    cres = "Completed" => CtxValid(aGot[FutArc])

\* C32: between polls, is_terminated() of FuturesContract is true once a
\* poll has returned Ready (Completed or Terminated), and false as long as
\* no poll has returned.
C32_FusedConsistency ==
    cpc = "idle" =>
        /\ cres \in {"Completed", "Terminated"} => FutIsTerminated
        /\ cres = "none" => ~FutIsTerminated

\* C33: the timed wrapper returns Ready(Ok(_)) only once its delay has
\* elapsed; the value in store and the value in Either::Left are the inner
\* future's Ok value; a poll called after the deadline with the value in
\* store returns Either::Left of it and no such poll returns Pending; and
\* a poll that gets the Ok value only at its second poll_and_store, after
\* the Delay was found elapsed, returns Either::Left of it as well.
C33_NoOkBeforeDelay ==
    /\ [](/\ tres[1] \in {"Left", "Right"} => elapsed
          /\ tres[1] = "Left" => (outcome[1] = "ok" /\ tres[2] = outcome[2])
          /\ store # Nothing =>
                (outcome[1] = "ok" /\ store = outcome[2] /\ ~fHeld)
          /\ (tpc = "idle" /\ storedAtCall) =>
                (tres = << "Left", outcome[2] >> /\ store = Nothing)
          /\ tpc \in {"take", "second"} => elapsed)
    /\ [][(tpc = "second" /\ tpc' # tpc /\ fHeld /\ inner = "ready"
           /\ outcome[1] = "ok") =>
             (tres' = << "Left", outcome[2] >> /\ tpc' = "idle")]_vars

\* C33 witness: the inner future completed at a poll before the deadline,
\* and the poll called after the deadline returned Either::Left(value).
C33_Witness ==
    tpc = "idle" /\ storedAtCall /\ tres[1] = "Left" /\ inner = "returned"

\* C34: a second poll_and_store that finds the inner future pending ends
\* the poll with Either::Right and f taken; a poll_and_store that gets
\* Err(e), at either place and whether or not the delay has elapsed, ends
\* the poll with Ready(Err(e)); and once f is gone no step of poll touches
\* the inner future.
C34_RightAndErr ==
    [][/\ (tpc = "second" /\ tpc' # tpc /\ fHeld /\ inner = "pending") =>
             (tres' = << "Right", Nothing >> /\ ~fHeld' /\ tpc' = "idle")
       /\ (tpc \in {"first", "second"} /\ tpc' # tpc /\ fHeld
           /\ inner = "ready" /\ outcome[1] = "err") =>
             (tres' = << "Err", outcome[2] >> /\ tpc' = "idle")
       /\ ~fHeld => (inner' # "returned" \/ inner = "returned")
       /\ ~fHeld => repolled' = repolled
      ]_vars

\* C34 witness: poll returned Either::Right, the wrapper no longer holds
\* the inner future, which has gone on to become ready without being polled.
C34_Witness ==
    tpc = "idle" /\ tres[1] = "Right" /\ ~fHeld /\ inner = "ready"

\* C35: once a poll of the timed wrapper has returned Ready (Left, Right or
\* Err), is_terminated() is true, and the inner future is never polled
\* after it has returned Ready.
C35_TerminatedAfterReady ==
    /\ (tpc = "idle" /\ tres[1] \in {"Left", "Right", "Err"}) =>
          TimedIsTerminated
    /\ ~repolled

====
